---- MODULE Spec2Model ----
(***************************************************************************)
(* Model of src/main.py: a Flask webhook that turns a trade signal into a  *)
(* Bybit position (webhook) and a background thread that steers the open   *)
(* position through TP1 -> breakeven -> ATR trailing by polling the        *)
(* exchange (ensure_trade_manager_running.loop).                           *)
(*                                                                         *)
(* Units.  Prices are integers in thousandths of a quote unit (100.00 is   *)
(* 100000), quantities in thousandths of a contract (1.0 is 1000), money   *)
(* in thousandths of a dollar, percentages in hundredths of a percent      *)
(* (0.35 % is 35), time in seconds.  A percentage of a price is cut to the *)
(* unit before the code's rounding down to the tick (ten units), which     *)
(* gives what the code's Decimal arithmetic gives.  The higher price drawn *)
(* lies between the trailing start (+0.15 %) and TP1 (+0.50 %) of an entry *)
(* at the lower one.                                                       *)
(*                                                                         *)
(* Each action is one stretch of code between two blocking exchange calls: *)
(* the webhook handlers run on the server's worker threads and the manager *)
(* on its own thread, and they interleave at those calls.                  *)
(***************************************************************************)
EXTENDS Integers, Sequences, FiniteSets, TLC

\* ------------------------------------------------------------ bounds ----
MaxEntries == 2
MaxClock == 1
ClockStep == 600

\* ------------------------------------------------- program constants ----
PctDen == 100 * 100
DEFAULT_SL_PCT == 35
DEFAULT_TP_PCT == 55
BYBIT_FEE_PCT == 10
MIN_EDGE_PCT == 20
MAX_SPREAD_PCT == 6
TP1_PCT == 50
TP1_QTY_PCT == 50
BE_OFFSET_PCT == 0
ATR_LEN == 14
ATR_MULT == 12
ATR_TRAIL_START_PCT == 15
ATR_TRAIL_TIMER_BARS == 10
MAX_BAR_RANGE_ATR == 25
REVERSE_MAX_LOSS_PCT == 5
CACHE_TTL == 600
COST_FILTER_ENABLED == TRUE
BAD_ENTRY_FILTER_ENABLED == TRUE
TP1_ENABLED == TRUE
BE_ENABLED == TRUE
BE_ARM_AFTER_TP1 == TRUE
ATR_TRAIL_ENABLED == TRUE
REVERSE_ENABLED == TRUE
REVERSE_ONLY_IF_NOT_IN_LOSS == TRUE

\* ------------------------------------- what the exchange is taken to hold
Symbols == {"XRPUSDT"}
Handlers == {1, 2}
Managers == {1, 2}
Prices == {100000, 100400}
StartPrice == 100 * 1000
qty_step == 100
tick_size == 10
FillLots == {4, 5}

\* ------------------------------------------------------- arithmetic ----
Abs(x) == IF x < 0 THEN -x ELSE x
Max2(a, b) == IF a >= b THEN a ELSE b
Min2(a, b) == IF a <= b THEN a ELSE b

\* Decimal.quantize(Decimal("1"), rounding=ROUND_DOWN): towards zero.
TruncDiv(a, b) == IF a >= 0 THEN a \div b ELSE -((-a) \div b)

round_down_to_step(value, step) ==
    IF step <= 0 THEN value ELSE TruncDiv(value, step) * step

\* entry * (1 + pct/100), pct in hundredths of a percent, possibly negative.
PctMove(entry, pct) == (entry * (PctDen + pct)) \div PctDen

calc_tp_sl_prices(entry_price, side, tp_pct, sl_pct, tick) ==
    IF side = "Buy"
    THEN [tp |-> round_down_to_step(PctMove(entry_price, tp_pct), tick),
          sl |-> round_down_to_step(PctMove(entry_price, -sl_pct), tick)]
    ELSE [tp |-> round_down_to_step(PctMove(entry_price, -tp_pct), tick),
          sl |-> round_down_to_step(PctMove(entry_price, sl_pct), tick)]

calc_tp1_price(entry_price, side, tp1_pct, tick) ==
    IF side = "Buy"
    THEN round_down_to_step(PctMove(entry_price, tp1_pct), tick)
    ELSE round_down_to_step(PctMove(entry_price, -tp1_pct), tick)

\* The cost gate without the second fee: one side of the round trip only.
passes_cost_filter_one_fee(tp_pct) ==
    ~COST_FILTER_ENABLED \/ tp_pct >= BYBIT_FEE_PCT + MIN_EDGE_PCT

\* Lines 345-350.
passes_cost_filter(tp_pct) ==
    IF ~COST_FILTER_ENABLED THEN TRUE
    ELSE tp_pct >= BYBIT_FEE_PCT * 2 + MIN_EDGE_PCT

\* ------------------------------------------------------------ klines ----
\* A kline is [high, low, close]; the exchange returns the newest first.
FlatBar(c, rng) == [high |-> c + rng, low |-> c, close |-> c]
KlinesShort == [i \in 1..3 |-> FlatBar(StartPrice, 15)]
KlinesCalm == [i \in 1..(ATR_LEN + 2) |-> FlatBar(StartPrice, 15)]
KlinesWild == [i \in 1..(ATR_LEN + 2) |-> FlatBar(StartPrice, 1500)]
KlinesSpike == [i \in 1..(ATR_LEN + 2) |->
                  IF i = 1 THEN FlatBar(StartPrice, 68) ELSE FlatBar(StartPrice, 12)]
KlineFeeds == {KlinesShort, KlinesCalm, KlinesWild, KlinesSpike}

Reverse(s) == [i \in 1..Len(s) |-> s[Len(s) + 1 - i]]

RECURSIVE SumSeq(_)
SumSeq(s) == IF s = <<>> THEN 0 ELSE Head(s) + SumSeq(Tail(s))

TrueRange(k, i) ==
    Max2(k[i].high - k[i].low,
         Max2(Abs(k[i].high - k[i - 1].close), Abs(k[i].low - k[i - 1].close)))

calc_atr_from_klines(klines, length) ==
    IF klines = <<>> \/ Len(klines) < length + 2 THEN 0
    ELSE LET k == Reverse(klines)
             trs == [j \in 1..(Len(k) - 1) |-> TrueRange(k, j + 1)]
         IN  IF Len(trs) < length THEN 0
             ELSE LET window == SubSeq(trs, Len(trs) - length + 1, Len(trs))
                  IN  SumSeq(window) \div length

\* ------------------------------------------------------------- state ----
VARIABLES
    now,              \* _now(): the wall clock, in seconds
    price,            \* exchange: last/mark price per symbol
    exPos,            \* exchange: the position per symbol [side, size, entry]
    resting,          \* exchange: resting reduce-only quantity per symbol and order side
    instrument_cache, \* _instrument_cache: per symbol the fetch time, -1 when absent
    trade_state,      \* _trade_state: per symbol the state dict (NoState when absent)
    trade_keys,       \* _trade_state's keys in insertion order
    started,          \* ensure_trade_manager_running._started
    hd,               \* the webhook handlers (server worker threads)
    mg,               \* the manager threads
    placed,           \* entry orders the exchange has accepted so far
    entries,          \* per symbol: entry orders accepted since the position was last flat
    probe             \* a single function under study: its arguments and what it returned

vars == <<now, price, exPos, resting, instrument_cache, trade_state, trade_keys,
          started, hd, mg, placed, entries, probe>>

Flat == [side |-> "", size |-> 0, entry |-> 0]
NoOrders == [Buy |-> 0, Sell |-> 0]
Opp(side) == IF side = "Buy" THEN "Sell" ELSE "Buy"

\* The dict the webhook registers (lines 728-738); id is the dict's identity.
NoState == [id |-> 0, active |-> FALSE, entry_ts |-> 0, entry_price |-> 0, side |-> "",
            initial_qty |-> 0, tp1_placed |-> FALSE, tp1_done |-> FALSE,
            be_done |-> FALSE, last_sl |-> 0]

NoPos == [side |-> "", size |-> 0, entry |-> 0, mark |-> 0]

\* The details a spread/impulse skip answers with (info, lines 354-384): the
\* spread as ask - bid over twice the mid, the ATR and the last bar's range.
NoInfo == [spread |-> 0, mid2 |-> 0, atr |-> 0, last_range |-> 0]

HIdle == [pc |-> "idle", symbol |-> "", side |-> "", usd |-> 0, leverage |-> 0,
          tp_pct |-> 0, info |-> NoInfo,
          pos |-> NoPos, px |-> 0, qty |-> 0, sl |-> 0, tp1 |-> FALSE,
          reverse |-> FALSE, gateway |-> FALSE, calls |-> <<>>, result |-> ""]

MIdle == [pc |-> "off", todo |-> <<>>, symbol |-> "", st |-> NoState, pos |-> NoPos,
          new_sl |-> 0, calls |-> <<>>]

\* The requests drawn: side as sent, margin (usd), leverage, tp_pct.
Sides == {"buy", "sell", "hold"}
Signals == {[side |-> sd, usd |-> 20000, leverage |-> 5, tp_pct |-> DEFAULT_TP_PCT] : sd \in Sides}
           \cup {[side |-> sd, usd |-> 500, leverage |-> 5, tp_pct |-> DEFAULT_TP_PCT] : sd \in {"buy", "sell"}}
           \cup {[side |-> "buy", usd |-> 0, leverage |-> 5, tp_pct |-> DEFAULT_TP_PCT],
                 [side |-> "buy", usd |-> 20000, leverage |-> 101, tp_pct |-> DEFAULT_TP_PCT],
                 [side |-> "buy", usd |-> 20000, leverage |-> 5, tp_pct |-> 0],
                 [side |-> "buy", usd |-> 20000, leverage |-> 5, tp_pct |-> 30]}

\* Half spreads the ticker may quote around the last price; 0: no quotes at all.
HalfSpreads == {0, 10, 100}
Quote(p, half) == IF half = 0 THEN [bid |-> 0, ask |-> 0, last |-> p]
                  ELSE [bid |-> p - half, ask |-> p + half, last |-> p]
QtyUnits == 10 * 100

\* No function is studied on its own while the program runs.
NoProbe == [pc |-> "none"]

\* The module's globals when the server starts (lines 71-77).
Constructed ==
    /\ now = ClockStep
    /\ price = [s \in Symbols |-> StartPrice]
    /\ exPos = [s \in Symbols |-> Flat]
    /\ resting = [s \in Symbols |-> NoOrders]
    /\ instrument_cache = [s \in Symbols |-> -1]
    /\ trade_state = [s \in Symbols |-> NoState]
    /\ trade_keys = <<>>
    /\ started = FALSE
    /\ hd = [h \in Handlers |-> HIdle]
    /\ mg = [m \in Managers |-> MIdle]
    /\ placed = 0
    /\ entries = [s \in Symbols |-> 0]

Init == Constructed /\ probe = NoProbe

\* ------------------------------------------------------- environment ----
\* A manager pass and the handling of a request take moments, and the manager
\* then sleeps five seconds (line 539): the clock, the price and the fills move
\* between passes and between requests.  A pass works on the snapshot it read,
\* so a move during the pass is a move after it, but for the position closing,
\* which makes the exchange refuse an order (EnvClose, at any moment).
Asleep == /\ \A m \in Managers : mg[m].pc \in {"off", "begin"}
          /\ \A h \in Handlers : hd[h].pc = "idle"

\* Only differences of times are read (lines 101, 491), so the clock is let run
\* from the first time stamp taken on.
Tick ==
    /\ Asleep
    /\ now < ClockStep * (MaxClock + 1)
    /\ \E s \in Symbols : instrument_cache[s] >= 0 \/ trade_state[s].entry_ts > 0
    /\ now' = now + ClockStep
    /\ UNCHANGED <<probe, price, exPos, resting, instrument_cache, trade_state, trade_keys,
                   started, hd, mg, placed, entries>>

EnvPrice(s) ==
    /\ Asleep
    /\ \E p \in Prices \ {price[s]} : price' = [price EXCEPT ![s] = p]
    /\ UNCHANGED <<probe, now, exPos, resting, instrument_cache, trade_state, trade_keys,
                   started, hd, mg, placed, entries>>

\* The position after a reduce of q: flat when nothing is left.
Reduced(p, q) == IF q >= p.size THEN Flat ELSE [p EXCEPT !.size = p.size - q]

\* The exchange cancels a symbol's reduce-only orders once its position is closed.
Resting(s, p, orders) == IF p.size = 0 THEN NoOrders ELSE orders

\* A resting reduce-only order (the TP1 limit order) fills, wholly or in part.
EnvFill(s) ==
    /\ Asleep
    /\ exPos[s].size > 0
    /\ resting[s][Opp(exPos[s].side)] > 0
    /\ \E lots \in FillLots :
         LET q == Min2(lots * qty_step, Min2(resting[s][Opp(exPos[s].side)], exPos[s].size))
         IN  /\ exPos' = [exPos EXCEPT ![s] = Reduced(exPos[s], q)]
             /\ resting' = [resting EXCEPT ![s] =
                    Resting(s, Reduced(exPos[s], q),
                            [@ EXCEPT ![Opp(exPos[s].side)] = @ - q])]
             /\ entries' = [entries EXCEPT ![s] = IF q >= exPos[s].size THEN 0 ELSE @]
    /\ UNCHANGED <<probe, now, price, instrument_cache, trade_state, trade_keys,
                   started, hd, mg, placed>>

\* The position's stop loss or take profit triggers: the position is closed.
EnvClose(s) ==
    /\ exPos[s].size > 0
    /\ exPos' = [exPos EXCEPT ![s] = Flat]
    /\ resting' = [resting EXCEPT ![s] = NoOrders]
    /\ entries' = [entries EXCEPT ![s] = 0]
    /\ UNCHANGED <<probe, now, price, instrument_cache, trade_state, trade_keys,
                   started, hd, mg, placed>>

\* ----------------------------------------------------------- webhook ----
\* Lines 353-384 once the ticker has answered; kl is what get_klines returns.
passes_bad_entry_filters(bid, ask, last, kl) ==
    IF ~BAD_ENTRY_FILTER_ENABLED THEN TRUE
    ELSE IF bid <= 0 \/ ask <= 0 \/ last <= 0 THEN TRUE
    ELSE IF (ask - bid) * PctDen * 2 > MAX_SPREAD_PCT * (bid + ask) THEN FALSE
    ELSE LET atr == calc_atr_from_klines(kl, ATR_LEN)
         IN  IF atr > 0 /\ kl # <<>> /\ (kl[1].high - kl[1].low) * 10 > atr * MAX_BAR_RANGE_ATR
             THEN FALSE ELSE TRUE

\* info as passes_bad_entry_filters has filled it when it returns False.
filter_info(q, kl) ==
    IF kl = <<>> THEN [NoInfo EXCEPT !.spread = q.ask - q.bid, !.mid2 = q.bid + q.ask]
    ELSE [spread |-> q.ask - q.bid, mid2 |-> q.bid + q.ask,
          atr |-> calc_atr_from_klines(kl, ATR_LEN), last_range |-> kl[1].high - kl[1].low]

\* Whether passes_bad_entry_filters gets as far as get_klines.
NeedsKlines(q) ==
    /\ BAD_ENTRY_FILTER_ENABLED
    /\ ~(q.bid <= 0 \/ q.ask <= 0 \/ q.last <= 0)
    /\ ~((q.ask - q.bid) * PctDen * 2 > MAX_SPREAD_PCT * (q.bid + q.ask))

\* What the model keeps of a handling's gateway calls: the orders it placed, in
\* order (calls), and whether any gateway call was made at all (gateway).
Orders == {"close", "entry", "tp1"}
Placed(called) == SelectSeq(called, LAMBDA c : c \in Orders)

Finish(h, res, called) ==
    hd' = [hd EXCEPT ![h] = [@ EXCEPT !.pc = "done", !.result = res,
                                      !.usd = 0, !.leverage = 0, !.pos = NoPos,
                                      !.px = 0, !.sl = 0, !.tp1 = FALSE,
                                      !.gateway = @ \/ called # <<>>,
                                      !.calls = @ \o Placed(called)]]

Goto(h, to, called) ==
    hd' = [hd EXCEPT ![h] = [@ EXCEPT !.pc = to, !.gateway = @ \/ called # <<>>,
                                      !.calls = @ \o Placed(called)]]

\* The worker that takes a request: the first one that is free.
Takes(h) == /\ hd[h].pc = "idle"
            /\ \A g \in Handlers : g < h => hd[g].pc # "idle"

ResolveSide(raw) == IF raw \in {"buy", "long"} THEN "Buy"
                    ELSE IF raw \in {"sell", "short"} THEN "Sell" ELSE ""

\* The validation with the upper limit of the leverage lost.
validation_no_leverage_cap(side, usd, leverage, tp_pct, sl_pct) ==
    IF side = "" THEN "bad_side"
    ELSE IF usd <= 0 THEN "bad_usd"
    ELSE IF leverage < 1 THEN "bad_leverage"
    ELSE IF tp_pct <= 0 \/ sl_pct <= 0 THEN "bad_tp_sl"
    ELSE ""

\* Lines 627-659: the 400 answer the request gets, "" when it is well formed.
validation(side, usd, leverage, tp_pct, sl_pct) ==
    IF side = "" THEN "bad_side"
    ELSE IF usd <= 0 THEN "bad_usd"
    ELSE IF leverage < 1 \/ leverage > 100 THEN "bad_leverage"
    ELSE IF tp_pct <= 0 \/ sl_pct <= 0 THEN "bad_tp_sl"
    ELSE ""

\* Lines 606-672: validation, cost filter, spread/impulse filter.
webhook_begin(h, s, sig) ==
    /\ Takes(h)
    /\ placed < MaxEntries
    /\ LET side == ResolveSide(sig.side)
           me == [hd[h] EXCEPT !.symbol = s, !.side = side, !.usd = sig.usd,
                               !.leverage = sig.leverage, !.tp_pct = sig.tp_pct]
           refused == validation(side, sig.usd, sig.leverage, sig.tp_pct, DEFAULT_SL_PCT)
           End(res, called) ==
               hd' = [hd EXCEPT ![h] = [me EXCEPT !.pc = "done", !.result = res,
                                                  !.gateway = called # <<>>]]
           Skip(info, called) ==
               hd' = [hd EXCEPT ![h] = [me EXCEPT !.pc = "done", !.result = "skip_filter",
                                                  !.info = info, !.gateway = called # <<>>]]
       IN  IF refused # "" THEN End(refused, <<>>)
           ELSE IF ~passes_cost_filter(sig.tp_pct) THEN End("skip_cost", <<>>)
           ELSE \/ End("error", <<"get_tickers_failed">>)
                \/ \E half \in HalfSpreads :
                     LET q == Quote(price[s], half)
                     IN  IF ~NeedsKlines(q)
                         THEN IF passes_bad_entry_filters(q.bid, q.ask, q.last, <<>>)
                              THEN hd' = [hd EXCEPT ![h] = [me EXCEPT !.pc = "position",
                                                   !.gateway = TRUE]]
                              ELSE Skip(filter_info(q, <<>>), <<"get_tickers">>)
                         ELSE \/ End("error", <<"get_tickers", "get_kline_failed">>)
                              \/ \E kl \in KlineFeeds :
                                   IF passes_bad_entry_filters(q.bid, q.ask, q.last, kl)
                                   THEN hd' = [hd EXCEPT ![h] = [me EXCEPT !.pc = "position",
                                                   !.gateway = TRUE]]
                                   ELSE Skip(filter_info(q, kl), <<"get_tickers", "get_kline">>)
    /\ UNCHANGED <<probe, now, price, exPos, resting, instrument_cache, trade_state, trade_keys,
                   started, mg, placed, entries>>

\* get_position_info (lines 241-267): None is NoPos.
get_position_info(s) ==
    IF exPos[s].size > 0
    THEN [side |-> exPos[s].side, size |-> exPos[s].size, entry |-> exPos[s].entry,
          mark |-> price[s]]
    ELSE NoPos

\* The loss guard with the sign of the test lost: it holds back the reversal of
\* a position in profit.
LossBeyondLimit_in_profit(pos) ==
    LET gain == IF pos.side = "Buy" THEN pos.mark - pos.entry ELSE pos.entry - pos.mark
    IN  gain * PctDen > REVERSE_MAX_LOSS_PCT * pos.entry

\* pos["pnl_pct"] < -REVERSE_MAX_LOSS_PCT, the pnl taken from mark against entry.
LossBeyondLimit(pos) ==
    LET gain == IF pos.side = "Buy" THEN pos.mark - pos.entry ELSE pos.entry - pos.mark
    IN  gain * PctDen < -(REVERSE_MAX_LOSS_PCT * pos.entry)

\* Every signal taken for an opposite one, whatever its side.
Opposes_any(current_side, side) == current_side \in {"Buy", "Sell"}

\* Line 681: the signal is opposite to the open position.
Opposes(current_side, side) ==
    \/ current_side = "Buy" /\ side = "Sell"
    \/ current_side = "Sell" /\ side = "Buy"

\* What the handler answers through ok() (lines 80-83: 200, "ok": true); the
\* other results go through bad() or the handler of line 749 (500).
Acknowledged(res) ==
    res \in {"skip_cost", "skip_filter", "skip_loss", "skip_same", "skip_open", "placed"}

\* Lines 677-697: the position read, the reverse decision, and (no position found)
\* the second read of get_open_position_size.
webhook_position(h) ==
    /\ hd[h].pc = "position"
    /\ \/ Finish(h, "error", <<"get_positions_failed">>)
       \/ LET pos == get_position_info(hd[h].symbol)
              side == hd[h].side
          IN  IF pos.size > 0 /\ REVERSE_ENABLED
              THEN IF Opposes(pos.side, side)
                   THEN IF REVERSE_ONLY_IF_NOT_IN_LOSS /\ LossBeyondLimit(pos)
                        THEN Finish(h, "skip_loss", <<"get_positions">>)
                        ELSE hd' = [hd EXCEPT ![h] = [@ EXCEPT !.pc = "close",
                                       !.pos = [NoPos EXCEPT !.side = pos.side,
                                                             !.size = pos.size],
                                       !.reverse = TRUE]]
                   ELSE Finish(h, "skip_same", <<"get_positions">>)
              ELSE IF exPos[hd[h].symbol].size > 0
                   THEN Finish(h, "skip_open", <<"get_positions", "get_positions">>)
                   ELSE Goto(h, "size", <<"get_positions", "get_positions">>)
    /\ UNCHANGED <<probe, now, price, exPos, resting, instrument_cache, trade_state, trade_keys,
                   started, mg, placed, entries>>

\* Lines 688-689: close_position_market, a reduce-only market order for the size read.
webhook_close(h) ==
    LET s == hd[h].symbol IN
    /\ hd[h].pc = "close"
    /\ \/ /\ Finish(h, "error", <<"close_failed">>)
          /\ UNCHANGED <<exPos, resting, entries>>
       \/ /\ exPos[s].size > 0
          /\ exPos[s].side = hd[h].pos.side
          /\ exPos' = [exPos EXCEPT ![s] = Reduced(exPos[s], hd[h].pos.size)]
          /\ resting' = [resting EXCEPT ![s] =
                            Resting(s, Reduced(exPos[s], hd[h].pos.size), @)]
          /\ entries' = [entries EXCEPT ![s] =
                            IF hd[h].pos.size >= exPos[s].size THEN 0 ELSE @]
          /\ Goto(h, "size", <<"close">>)
    /\ UNCHANGED <<probe, now, price, instrument_cache, trade_state, trade_keys,
                   started, mg, placed>>

\* The freshness test with an entry exactly CACHE_TTL old still served.
CacheFresh_ttl_inclusive(s) ==
    instrument_cache[s] >= 0 /\ now - instrument_cache[s] <= CACHE_TTL

\* get_instrument_filters (lines 96-124): whether the cached entry is served.
CacheFresh(s) == instrument_cache[s] >= 0 /\ now - instrument_cache[s] < CACHE_TTL

\* place_market_order_with_tpsl, lines 388-398: leverage, price, filters, quantity.
webhook_size(h) ==
    LET s == hd[h].symbol
        notional == hd[h].usd * hd[h].leverage
        raw_qty == (notional * QtyUnits) \div price[s]
        qty == round_down_to_step(raw_qty, qty_step)
        fetched == IF CacheFresh(s) THEN <<>> ELSE <<"get_instruments_info">>
        read == <<"set_leverage", "get_tickers">> \o fetched
    IN
    /\ hd[h].pc = "size"
    /\ \/ /\ Finish(h, "error", <<"set_leverage_failed">>)
          /\ UNCHANGED instrument_cache
       \/ /\ Finish(h, "error", <<"set_leverage", "get_tickers_failed">>)
          /\ UNCHANGED instrument_cache
       \/ /\ ~CacheFresh(s)
          /\ Finish(h, "error", <<"set_leverage", "get_tickers", "get_instruments_info_failed">>)
          /\ UNCHANGED instrument_cache
       \/ /\ instrument_cache' = IF CacheFresh(s) THEN instrument_cache
                                 ELSE [instrument_cache EXCEPT ![s] = now]
          /\ IF qty <= 0
             THEN Finish(h, "bad_qty", read)
             ELSE hd' = [hd EXCEPT ![h] = [@ EXCEPT !.pc = "entry", !.px = price[s],
                      !.qty = qty,
                      !.sl = calc_tp_sl_prices(price[s], hd[h].side, DEFAULT_TP_PCT,
                                               DEFAULT_SL_PCT, tick_size).sl,
                      !.gateway = TRUE]]
    /\ UNCHANGED <<probe, now, price, exPos, resting, trade_state, trade_keys,
                   started, mg, placed, entries>>

\* The exchange's position after a market order of qty on side, not reduce-only.
Filled(p, side, qty, px) ==
    IF p.size = 0 THEN [side |-> side, size |-> qty, entry |-> px]
    ELSE IF p.side = side THEN [p EXCEPT !.size = p.size + qty]
    ELSE IF qty < p.size THEN [p EXCEPT !.size = p.size - qty]
    ELSE IF qty = p.size THEN Flat
    ELSE [side |-> side, size |-> qty - p.size, entry |-> px]

\* place_market_order_with_tpsl, lines 400-427: the market entry order.
webhook_entry(h) ==
    LET s == hd[h].symbol
        after == Filled(exPos[s], hd[h].side, hd[h].qty, price[s])
    IN
    /\ hd[h].pc = "entry"
    /\ \/ /\ Finish(h, "error", <<"entry_failed">>)
          /\ UNCHANGED <<exPos, resting, entries, placed>>
       \/ /\ exPos' = [exPos EXCEPT ![s] = after]
          /\ resting' = [resting EXCEPT ![s] = Resting(s, after, @)]
          /\ entries' = [entries EXCEPT ![s] = IF after.size = 0 THEN 0 ELSE @ + 1]
          /\ placed' = placed + 1
          /\ Goto(h, "tp1", <<"entry">>)
    /\ UNCHANGED <<probe, now, price, instrument_cache, trade_state, trade_keys,
                   started, mg>>

\* Lines 708-723: filters again, then the reduce-only TP1 order.
webhook_tp1(h) ==
    LET s == hd[h].symbol
        fetched == IF CacheFresh(s) THEN <<>> ELSE <<"get_instruments_info">>
        tp1_qty == round_down_to_step((hd[h].qty * TP1_QTY_PCT) \div 100, qty_step)
    IN
    /\ hd[h].pc = "tp1"
    /\ \/ /\ ~CacheFresh(s)
          /\ Finish(h, "error", <<"get_instruments_info_failed">>)
          /\ UNCHANGED <<instrument_cache, resting>>
       \/ /\ TP1_ENABLED /\ tp1_qty > 0
          /\ Finish(h, "error", fetched \o <<"tp1_failed">>)
          /\ instrument_cache' = IF CacheFresh(s) THEN instrument_cache
                                 ELSE [instrument_cache EXCEPT ![s] = now]
          /\ UNCHANGED resting
       \/ /\ instrument_cache' = IF CacheFresh(s) THEN instrument_cache
                                 ELSE [instrument_cache EXCEPT ![s] = now]
          /\ TP1_ENABLED /\ tp1_qty > 0 => exPos[s].size > 0
          /\ IF TP1_ENABLED /\ tp1_qty > 0
             THEN /\ resting' = [resting EXCEPT ![s][Opp(hd[h].side)] = @ + tp1_qty]
                  /\ hd' = [hd EXCEPT ![h] = [@ EXCEPT !.pc = "register", !.tp1 = TRUE,
                                                 !.calls = @ \o <<"tp1">>]]
             ELSE /\ UNCHANGED resting
                  /\ Goto(h, "register", fetched)
    /\ UNCHANGED <<probe, now, price, exPos, trade_state, trade_keys,
                   started, mg, placed, entries>>

\* The identity of a new dict: one no thread and no map entry refers to.
FreshId == CHOOSE i \in 1..(Cardinality(Managers) + Cardinality(Symbols) + 1) :
              /\ \A m \in Managers : mg[m].st.id # i
              /\ \A s \in Symbols : trade_state[s].id # i
              /\ \A j \in 1..(i - 1) : (\E m \in Managers : mg[m].st.id = j)
                                       \/ (\E s \in Symbols : trade_state[s].id = j)

InSeq(x, sq) == \E i \in 1..Len(sq) : sq[i] = x

\* Lines 728-739 and 435-436: the state dict is stored, then _started is read.
webhook_register(h) ==
    LET s == hd[h].symbol IN
    /\ hd[h].pc = "register"
    /\ trade_state' = [trade_state EXCEPT ![s] =
           [id |-> FreshId, active |-> TRUE, entry_ts |-> now, entry_price |-> hd[h].px,
            side |-> hd[h].side, initial_qty |-> hd[h].qty, tp1_placed |-> hd[h].tp1,
            tp1_done |-> FALSE, be_done |-> FALSE, last_sl |-> hd[h].sl]]
    /\ trade_keys' = IF InSeq(s, trade_keys) THEN trade_keys ELSE Append(trade_keys, s)
    /\ IF started THEN Finish(h, "placed", <<>>) ELSE Goto(h, "ensure_set", <<>>)
    /\ UNCHANGED <<probe, now, price, exPos, resting, instrument_cache, started, mg,
                   placed, entries>>

\* Lines 437-542: _started is set and a manager thread is started.
ensure_set(h) ==
    /\ hd[h].pc = "ensure_set"
    /\ started' = TRUE
    /\ \E m \in Managers :
         /\ mg[m].pc = "off"
         /\ \A k \in Managers : k < m => mg[k].pc # "off"
         /\ mg' = [mg EXCEPT ![m].pc = "begin"]
    /\ Finish(h, "placed", <<>>)
    /\ UNCHANGED <<probe, now, price, exPos, resting, instrument_cache, trade_state, trade_keys,
                   placed, entries>>

\* The response is sent and the worker is free again.
webhook_return(h) ==
    /\ hd[h].pc = "done"
    /\ hd' = [hd EXCEPT ![h] = HIdle]
    /\ UNCHANGED <<probe, now, price, exPos, resting, instrument_cache, trade_state, trade_keys,
                   started, mg, placed, entries>>

\* ----------------------------------------------------------- manager ----
\* The model keeps of a pass the stop updates it sent to the exchange (calls),
\* until the pass's sleep is over.
Call(op, s) == [op |-> op, symbol |-> s]

\* The pass is over: time.sleep(5) of line 539.
Sleep(calls) == [MIdle EXCEPT !.pc = "sleep", !.calls = calls]

\* After a symbol: on to the next one, or the pass is over.
Onward(me) == IF me.todo = <<>> THEN Sleep(me.calls)
              ELSE [me EXCEPT !.pc = "next"]

\* An exception ends the pass (lines 535-539): log, sleep, next pass.
Raise(m, calls) == mg' = [mg EXCEPT ![m] = Sleep(calls)]

\* st is a reference: a change made through it is seen by every holder of the
\* same dict, and `_trade_state[symbol] = st` stores that dict in the map.
Store(m, s, st, me) ==
    /\ trade_state' = [trade_state EXCEPT ![s] = st]
    /\ mg' = [k \in Managers |->
                IF k = m THEN me
                ELSE IF mg[k].st.id = st.id /\ st.id # 0 THEN [mg[k] EXCEPT !.st = st]
                ELSE mg[k]]

\* The symbols of a pass still to do, the inactive ones at the front skipped
\* (lines 445-447).
RECURSIVE SkipInactive(_)
SkipInactive(todo) ==
    IF todo = <<>> THEN <<>>
    ELSE IF trade_state[Head(todo)].active THEN todo
    ELSE SkipInactive(Tail(todo))

\* Lines 444-447: at the start of a pass (after the sleep of line 539) the keys
\* are listed; the next active symbol's dict is read; with none left the pass ends.
loop_next(m) ==
    /\ mg[m].pc \in {"begin", "next"}
    /\ LET todo == SkipInactive(IF mg[m].pc = "begin" THEN trade_keys ELSE mg[m].todo)
       IN  IF todo = <<>>
           THEN mg' = [mg EXCEPT ![m] = Sleep(@.calls)]
           ELSE mg' = [mg EXCEPT ![m] = [@ EXCEPT !.todo = Tail(todo),
                          !.symbol = Head(todo), !.st = trade_state[Head(todo)],
                          !.pos = NoPos, !.new_sl = 0, !.pc = "getpos"]]
    /\ UNCHANGED <<probe, now, price, exPos, resting, instrument_cache, trade_state, trade_keys,
                   started, hd, placed, entries>>

\* The threshold with a tolerance of 0.9 where the code has 0.8.
tp1_reached_tolerance_09(cur_qty, initial_qty) ==
    cur_qty * 1000 <= initial_qty * (1000 - TP1_QTY_PCT * 9)

\* Line 464-465: cur_qty <= initial_qty * (1 - TP1_QTY_PCT * 0.8).
tp1_reached(cur_qty, initial_qty) ==
    cur_qty * 1000 <= initial_qty * (1000 - TP1_QTY_PCT * 8)

\* Lines 449-469: position read; closed -> inactive; else filters and TP1 detection.
loop_get_position(m) ==
    LET s == mg[m].symbol
        st == mg[m].st
        pos == get_position_info(s)
        detect == TP1_ENABLED /\ st.tp1_placed /\ ~st.tp1_done
                  /\ tp1_reached(pos.size, st.initial_qty)
    IN
    /\ mg[m].pc = "getpos"
    /\ \/ /\ Raise(m, mg[m].calls)
          /\ UNCHANGED <<trade_state, instrument_cache>>
       \/ /\ pos.size = 0
          /\ Store(m, s, [st EXCEPT !.active = FALSE],
                   Onward([mg[m] EXCEPT !.st = [st EXCEPT !.active = FALSE]]))
          /\ UNCHANGED instrument_cache
       \/ /\ pos.size > 0
          /\ ~CacheFresh(s)
          /\ Raise(m, mg[m].calls)
          /\ UNCHANGED <<trade_state, instrument_cache>>
       \/ /\ pos.size > 0
          /\ instrument_cache' = IF CacheFresh(s) THEN instrument_cache
                                 ELSE [instrument_cache EXCEPT ![s] = now]
          /\ LET st2 == IF detect THEN [st EXCEPT !.tp1_done = TRUE] ELSE st
                 me == [mg[m] EXCEPT !.pc = "be", !.pos = pos, !.st = st2]
             IN  IF detect THEN Store(m, s, st2, me)
                 ELSE /\ mg' = [mg EXCEPT ![m] = me]
                      /\ UNCHANGED trade_state
    /\ UNCHANGED <<probe, now, price, exPos, resting, trade_keys,
                   started, hd, placed, entries>>

\* Lines 473-479: the breakeven stop price.
be_price(pos) ==
    IF pos.side = "Buy"
    THEN round_down_to_step(PctMove(pos.entry, BE_OFFSET_PCT), tick_size)
    ELSE round_down_to_step(PctMove(pos.entry, -BE_OFFSET_PCT), tick_size)

\* The breakeven test with be_done read the wrong way round.
be_due_when_done(st) == BE_ENABLED /\ BE_ARM_AFTER_TP1 /\ st.tp1_done /\ st.be_done

\* Line 472: whether the breakeven step runs.
be_due(st) == BE_ENABLED /\ BE_ARM_AFTER_TP1 /\ st.tp1_done /\ ~st.be_done

\* Lines 488-508: the timer gate and the start gate of the trailing step.
trail_gates(st, pos) ==
    /\ ATR_TRAIL_ENABLED
    /\ LET minutes_in_trade == IF st.entry_ts > 0
                               THEN Max2(0, (now - st.entry_ts) \div 60) ELSE 0
       IN  minutes_in_trade >= ATR_TRAIL_TIMER_BARS
    /\ LET gain == IF pos.side = "Buy" THEN pos.mark - pos.entry ELSE pos.entry - pos.mark
       IN  IF pos.entry > 0 THEN gain * PctDen >= ATR_TRAIL_START_PCT * pos.entry
           ELSE 0 >= ATR_TRAIL_START_PCT

\* set_position_sl (lines 318-326) succeeds only on an open position.
StopAccepted(s) == exPos[s].size > 0

\* Lines 472-508: breakeven after TP1, then the gates of the trailing step.
loop_breakeven(m) ==
    LET s == mg[m].symbol
        st == mg[m].st
        pos == mg[m].pos
        after(me) == IF trail_gates(me.st, pos) THEN [me EXCEPT !.pc = "klines"]
                     ELSE Onward(me)
    IN
    /\ mg[m].pc = "be"
    /\ IF be_due(st)
       THEN \/ /\ Raise(m, mg[m].calls \o <<Call("set_trading_stop_be", s)>>)
               /\ UNCHANGED trade_state
            \/ /\ StopAccepted(s)
               /\ LET st2 == [st EXCEPT !.be_done = TRUE, !.last_sl = be_price(pos)]
                  IN  Store(m, s, st2,
                            after([mg[m] EXCEPT !.st = st2,
                                !.calls = @ \o <<Call("set_trading_stop_be", s)>>]))
       ELSE /\ mg' = [mg EXCEPT ![m] = after(mg[m])]
            /\ UNCHANGED trade_state
    /\ UNCHANGED <<probe, now, price, exPos, resting, instrument_cache, trade_keys,
                   started, hd, placed, entries>>

\* Lines 512-516: the candidate stop, in tenths of the price unit until rounded.
trail_candidate(pos, atr) ==
    IF pos.side = "Buy"
    THEN round_down_to_step(pos.mark * 10 - atr * ATR_MULT, tick_size * 10) \div 10
    ELSE round_down_to_step(pos.mark * 10 + atr * ATR_MULT, tick_size * 10) \div 10

\* Lines 509-516: klines, ATR, candidate stop.
loop_klines(m) ==
    LET s == mg[m].symbol IN
    /\ mg[m].pc = "klines"
    /\ \/ Raise(m, mg[m].calls)
       \/ \E kl \in KlineFeeds :
            LET atr == calc_atr_from_klines(kl, ATR_LEN)
            IN  mg' = [mg EXCEPT ![m] =
                         IF atr > 0
                         THEN [@ EXCEPT !.pc = "trail",
                                        !.new_sl = trail_candidate(mg[m].pos, atr)]
                         ELSE Onward(@)]
    /\ UNCHANGED <<probe, now, price, exPos, resting, instrument_cache, trade_state, trade_keys,
                   started, hd, placed, entries>>

\* The ratchet with a candidate equal to last_sl let through.
trail_sends_or_equal(side, new_sl, last_sl) ==
    IF last_sl <= 0 THEN TRUE
    ELSE \/ side = "Buy" /\ new_sl >= last_sl
         \/ side = "Sell" /\ new_sl <= last_sl

\* Lines 519-533: whether the candidate is sent.
trail_sends(side, new_sl, last_sl) ==
    IF last_sl <= 0 THEN TRUE
    ELSE \/ side = "Buy" /\ new_sl > last_sl
         \/ side = "Sell" /\ new_sl < last_sl

\* Lines 518-533: only tighten.
loop_trail(m) ==
    LET s == mg[m].symbol
        st == mg[m].st
    IN
    /\ mg[m].pc = "trail"
    /\ IF trail_sends(mg[m].pos.side, mg[m].new_sl, st.last_sl)
       THEN \/ /\ Raise(m, mg[m].calls \o <<Call("set_trading_stop_trail", s)>>)
               /\ UNCHANGED trade_state
            \/ /\ StopAccepted(s)
               /\ LET st2 == [st EXCEPT !.last_sl = mg[m].new_sl]
                  IN  Store(m, s, st2,
                            Onward([mg[m] EXCEPT !.st = st2,
                                !.calls = @ \o <<Call("set_trading_stop_trail", s)>>]))
       ELSE /\ mg' = [mg EXCEPT ![m] = Onward(@)]
            /\ UNCHANGED trade_state
    /\ UNCHANGED <<probe, now, price, exPos, resting, instrument_cache, trade_keys,
                   started, hd, placed, entries>>

\* Line 539: the sleep is over, the next pass begins.
loop_sleep(m) ==
    /\ mg[m].pc = "sleep"
    /\ mg' = [mg EXCEPT ![m] = [MIdle EXCEPT !.pc = "begin"]]
    /\ UNCHANGED <<probe, now, price, exPos, resting, instrument_cache, trade_state, trade_keys,
                   started, hd, placed, entries>>

\* ------------------------------------------------ round_down_to_step ----
\* The function on its own: value and step are Decimals of either sign, here
\* whole numbers of the smallest unit.
MaxValue == 12
MaxStep == 4
RoundValues == (-MaxValue)..MaxValue
RoundSteps == (-1)..MaxStep

\* The callers hold a value and a step.
InitRound ==
    /\ Constructed
    /\ \E value \in RoundValues, step \in RoundSteps :
         probe = [pc |-> "value", value |-> value, step |-> step, out |-> 0, again |-> 0]

\* round_down_to_step(value, step), lines 127-133.
round_call ==
    /\ probe.pc = "value"
    /\ probe' = [probe EXCEPT !.pc = "rounded",
                              !.out = round_down_to_step(probe.value, probe.step)]
    /\ UNCHANGED <<now, price, exPos, resting, instrument_cache, trade_state,
                   trade_keys, started, hd, mg, placed, entries>>

\* The function applied to what it returned, with the same step.
round_again ==
    /\ probe.pc = "rounded"
    /\ probe' = [probe EXCEPT !.pc = "twice",
                              !.again = round_down_to_step(probe.out, probe.step)]
    /\ UNCHANGED <<now, price, exPos, resting, instrument_cache, trade_state,
                   trade_keys, started, hd, mg, placed, entries>>

NextRound == round_call \/ round_again

SpecRound == InitRound /\ [][NextRound]_vars

\* -------------------------------------------- get_instrument_filters ----
\* The cache on its own.  instrument_cache keeps the "ts" of the entry; the
\* filters cached with it, the filters the exchange reports at the moment and
\* the outcome of the call are kept in probe.
NoFilters == [qty_step |-> 0, tick_size |-> 0]
FilterSets == {[qty_step |-> qty_step, tick_size |-> tick_size],
               [qty_step |-> 10, tick_size |-> 1]}
\* What get_instruments_info answers: retCode # 0, an empty list, or an item.
Answers == {"error", "unknown", "item"}

InitFilters ==
    /\ Constructed
    /\ \E f \in FilterSets :
         probe = [pc |-> "idle", cached |-> NoFilters, exchange |-> f, out |-> NoFilters,
                  called |-> FALSE, raised |-> FALSE, answer |-> "none"]

\* Time passes between two calls, by half a CACHE_TTL at a time.
filters_tick ==
    /\ probe.pc = "idle"
    /\ now < ClockStep * (MaxClock + 2)
    /\ now' = now + ClockStep \div 2
    /\ UNCHANGED <<probe, price, exPos, resting, instrument_cache, trade_state,
                   trade_keys, started, hd, mg, placed, entries>>

\* The exchange changes the instrument's filters.
filters_exchange ==
    /\ probe.pc = "idle"
    /\ \E f \in FilterSets : f # probe.exchange /\ probe' = [probe EXCEPT !.exchange = f]
    /\ UNCHANGED <<now, price, exPos, resting, instrument_cache, trade_state,
                   trade_keys, started, hd, mg, placed, entries>>

\* get_instrument_filters(symbol), lines 96-124.
get_instrument_filters(s) ==
    /\ probe.pc = "idle"
    /\ IF CacheFresh(s)
       THEN /\ probe' = [probe EXCEPT !.pc = "returned", !.out = probe.cached]
            /\ UNCHANGED instrument_cache
       ELSE \E answer \in Answers :
              IF answer = "item"
              THEN /\ probe' = [probe EXCEPT !.pc = "returned", !.called = TRUE,
                                             !.answer = answer,
                                             !.cached = probe.exchange,
                                             !.out = probe.exchange]
                   /\ instrument_cache' = [instrument_cache EXCEPT ![s] = now]
              ELSE /\ probe' = [probe EXCEPT !.pc = "returned", !.called = TRUE,
                                             !.answer = answer, !.raised = TRUE]
                   /\ UNCHANGED instrument_cache
    /\ UNCHANGED <<now, price, exPos, resting, trade_state, trade_keys, started,
                   hd, mg, placed, entries>>

\* The caller has its answer; the next call may come.
filters_returned ==
    /\ probe.pc = "returned"
    /\ probe' = [probe EXCEPT !.pc = "idle", !.out = NoFilters, !.called = FALSE,
                              !.raised = FALSE, !.answer = "none"]
    /\ UNCHANGED <<now, price, exPos, resting, instrument_cache, trade_state,
                   trade_keys, started, hd, mg, placed, entries>>

NextFilters == \/ filters_tick
               \/ filters_exchange
               \/ \E s \in Symbols : get_instrument_filters(s)
               \/ filters_returned

SpecFilters == InitFilters /\ [][NextFilters]_vars

\* ---------------------------------------------- calc_atr_from_klines ----
\* The function on its own, with a short length so that every candle sequence
\* up to MaxBars can be tried.  Candles come newest first, as from get_klines.
AtrLength == 2
MaxBars == 4
Candle(h, l, c) == [high |-> h, low |-> l, close |-> c]
Candles == {Candle(104, 100, 100), Candle(102, 100, 102), Candle(110, 108, 108)}
CandleFeeds == UNION {[1..n -> Candles] : n \in (AtrLength + 1)..MaxBars}

InitAtr ==
    /\ Constructed
    /\ \E kl \in CandleFeeds : probe = [pc |-> "klines", klines |-> kl, atr |-> 0]

\* calc_atr_from_klines(klines, length), lines 170-198.
atr_call ==
    /\ probe.pc = "klines"
    /\ probe' = [probe EXCEPT !.pc = "atr",
                              !.atr = calc_atr_from_klines(probe.klines, AtrLength)]
    /\ UNCHANGED <<now, price, exPos, resting, instrument_cache, trade_state,
                   trade_keys, started, hd, mg, placed, entries>>

\* The caller has its ATR; the next candles arrive.
atr_next ==
    /\ probe.pc = "atr"
    /\ \E kl \in CandleFeeds : probe' = [pc |-> "klines", klines |-> kl, atr |-> 0]
    /\ UNCHANGED <<now, price, exPos, resting, instrument_cache, trade_state,
                   trade_keys, started, hd, mg, placed, entries>>

NextAtr == atr_call \/ atr_next

SpecAtr == InitAtr /\ [][NextAtr]_vars

\* ----------------------------------------------------- specification ----
Env == \/ Tick
       \/ \E s \in Symbols : EnvPrice(s) \/ EnvFill(s) \/ EnvClose(s)

Webhook(H) == \E h \in H :
              \/ \E s \in Symbols, sig \in Signals : webhook_begin(h, s, sig)
              \/ webhook_position(h)
              \/ webhook_close(h)
              \/ webhook_size(h)
              \/ webhook_entry(h)
              \/ webhook_tp1(h)
              \/ webhook_register(h)
              \/ ensure_set(h)
              \/ webhook_return(h)

Manager == \E m \in Managers :
              \/ loop_next(m)
              \/ loop_get_position(m)
              \/ loop_breakeven(m)
              \/ loop_klines(m)
              \/ loop_trail(m)
              \/ loop_sleep(m)

\* One worker thread serves the requests, one after the other.
Next == Env \/ Webhook({1}) \/ Manager

Spec == Init /\ [][Next]_vars

\* Requests served by concurrent worker threads.  The races between the threads
\* last moments, the trailing timer many bars (line 491): the clock stands still
\* here and the trailing step is never due.
NextThreaded == \/ \E s \in Symbols : EnvPrice(s) \/ EnvFill(s) \/ EnvClose(s)
                \/ Webhook(Handlers)
                \/ \E m \in Managers : \/ loop_next(m)
                                        \/ loop_get_position(m)
                                        \/ loop_breakeven(m)
                                        \/ loop_sleep(m)

SpecThreaded == Init /\ [][NextThreaded]_vars

\* The manager thread is a daemon thread that loops for ever (lines 441-442,
\* 539): each of its steps is taken once it is due.  The gateway answers in the
\* end: the position query (with the filters) and the breakeven stop call do
\* not fail for ever.  The breakeven step does not read the clock: as in
\* SpecThreaded it stands still and the trailing step is never due.
PositionRead(m) == loop_get_position(m) /\ mg'[m].pc = "be"
BreakevenSet(m) == loop_breakeven(m) /\ trade_state' # trade_state
Fairness ==
    \A m \in Managers :
        /\ WF_vars(loop_next(m))
        /\ WF_vars(loop_get_position(m))
        /\ WF_vars(loop_breakeven(m))
        /\ WF_vars(loop_sleep(m))
        /\ SF_vars(PositionRead(m))
        /\ SF_vars(BreakevenSet(m))

NextFair == \/ \E s \in Symbols : EnvPrice(s) \/ EnvFill(s) \/ EnvClose(s)
            \/ Webhook({1})
            \/ \E m \in Managers : \/ loop_next(m)
                                    \/ loop_get_position(m)
                                    \/ loop_breakeven(m)
                                    \/ loop_sleep(m)

SpecFair == Init /\ [][NextFair]_vars /\ Fairness

\* ------------------------------------------- a pass over two symbols ----
\* Two trades are registered, on two symbols, and the manager thread runs: the
\* state after two accepted webhooks (lines 728-739), ETHUSDT first.
PassSymbols == {"ETHUSDT", "XRPUSDT"}
PassKeys == <<"ETHUSDT", "XRPUSDT">>
PassQty == 10 * qty_step
Registered(i, side) ==
    [id |-> i, active |-> TRUE, entry_ts |-> ClockStep, entry_price |-> StartPrice,
     side |-> side, initial_qty |-> PassQty, tp1_placed |-> TRUE, tp1_done |-> FALSE,
     be_done |-> FALSE,
     last_sl |-> calc_tp_sl_prices(StartPrice, side, DEFAULT_TP_PCT, DEFAULT_SL_PCT,
                                   tick_size).sl]

InitPass ==
    /\ now = ClockStep
    /\ price = [s \in PassSymbols |-> StartPrice]
    /\ \E sides \in [PassSymbols -> {"Buy", "Sell"}] :
         /\ exPos = [s \in PassSymbols |->
                       [side |-> sides[s], size |-> PassQty, entry |-> StartPrice]]
         /\ resting = [s \in PassSymbols |->
                         [NoOrders EXCEPT ![Opp(sides[s])] = (PassQty * TP1_QTY_PCT) \div 100]]
         /\ trade_state = [s \in PassSymbols |->
                             Registered(IF s = PassKeys[1] THEN 1 ELSE 2, sides[s])]
    /\ instrument_cache = [s \in PassSymbols |-> ClockStep]
    /\ trade_keys = PassKeys
    /\ started = TRUE
    /\ hd = [h \in Handlers |-> HIdle]
    /\ mg = [m \in Managers |-> IF m = 1 THEN [MIdle EXCEPT !.pc = "begin"] ELSE MIdle]
    /\ placed = MaxEntries
    /\ entries = [s \in PassSymbols |-> 1]
    /\ probe = NoProbe

\* The manager thread and the exchange; no request arrives.
NextPass == \/ Tick
            \/ \E s \in PassSymbols : EnvPrice(s) \/ EnvFill(s) \/ EnvClose(s)
            \/ Manager

SpecPass == InitPass /\ [][NextPass]_vars

\* ------------------------------------------------------------ claims ----
\* A stop update sent by manager m in this step (accepted by the exchange or not).
SendsStop(m) == Len(mg'[m].calls) > Len(mg[m].calls)

TrailCall(s) == Call("set_trading_stop_trail", s)

\* C1: within one trade the recorded stop (last_sl) only moves in the position's
\* favour under the manager's writes, breakeven and trailing alike: for a long
\* each newly recorded stop is >= the one before, for a short <=.
C1_StopOnlyTightens ==
    [][\A s \in Symbols :
         (/\ hd' = hd
          /\ trade_state[s].active
          /\ trade_state'[s].id = trade_state[s].id
          /\ trade_state'[s].last_sl # trade_state[s].last_sl)
         => IF trade_state[s].side = "Buy"
            THEN trade_state'[s].last_sl >= trade_state[s].last_sl
            ELSE trade_state'[s].last_sl <= trade_state[s].last_sl]_vars

\* C2: breakeven is recorded only for a trade whose TP1 fill was detected, and a
\* trailing stop is sent only for a trade with tp1_done and be_done both set.
C2_TrailAfterBreakevenAfterTp1 ==
    [][/\ \A s \in Symbols : trade_state'[s].be_done => trade_state'[s].tp1_done
       /\ \A m \in Managers :
            (mg[m].pc = "trail" /\ SendsStop(m))
            => (mg[m].st.tp1_done /\ mg[m].st.be_done)]_vars

\* C3: with concurrent handlers, at most one market entry order is submitted for
\* a symbol between two moments at which its position is flat.
C3_OneEntryPerFlat == \A s \in Symbols : entries[s] <= 1

\* C4: in a reversal the new entry is submitted only after the old position was
\* closed, its orders are gone and the symbol's state was cleared.
C4_ReversalClearsBeforeEntry ==
    [][\A h \in Handlers :
         (hd[h].pc = "entry" /\ hd[h].reverse /\ placed' = placed + 1)
         => /\ hd[h].calls = <<"close">>
            /\ resting[hd[h].symbol] = NoOrders
            /\ ~trade_state[hd[h].symbol].active]_vars

\* C5: a handling that ends because the quantized quantity is <= 0 has placed no
\* order of any kind, on the reversal path too.
C5_BadQtyPlacesNothing ==
    \A h \in Handlers : hd[h].result = "bad_qty" => hd[h].calls = <<>>

\* C6: a handling whose market entry order was accepted ends with an active state
\* for the symbol that describes the trade, also when a later step failed.
C6_StateAfterAcceptedEntry ==
    [][\A h \in Handlers :
         (hd[h].pc # "done" /\ hd'[h].pc = "done" /\ InSeq("entry", hd'[h].calls))
         => /\ trade_state'[hd[h].symbol].active
            /\ trade_state'[hd[h].symbol].side = hd[h].side
            /\ trade_state'[hd[h].symbol].initial_qty = hd[h].qty]_vars

C8_BreakevenAfterCancelAll ==
    [][\A m \in Managers :
         (mg[m].pc = "be" /\ SendsStop(m)) => resting[mg[m].symbol] = NoOrders]_vars

\* C9: in the trailing step with a known last_sl the candidate is sent exactly
\* when it strictly improves on last_sl (long: higher, short: lower); when it does
\* not, no stop call is made and nothing is recorded; what is recorded is the
\* candidate that was sent.
C9_TrailingRatchet ==
    [][\A m \in Managers :
         (mg[m].pc = "trail" /\ mg'[m].pc # "trail" /\ mg[m].st.last_sl > 0)
         => LET s == mg[m].symbol
                improves == IF mg[m].pos.side = "Buy"
                            THEN mg[m].new_sl > mg[m].st.last_sl
                            ELSE mg[m].new_sl < mg[m].st.last_sl
                sent == mg'[m].calls = mg[m].calls \o <<TrailCall(s)>>
            IN  /\ sent <=> improves
                /\ ~improves => (mg'[m].calls = mg[m].calls /\ trade_state' = trade_state)
                /\ trade_state' # trade_state
                   => (sent /\ trade_state'[s].last_sl = mg[m].new_sl)]_vars

\* A long's trailing candidate was sent and recorded above the entry price.
C9_Witness ==
    \E m \in Managers, s \in Symbols :
        /\ mg[m].pc = "sleep"
        /\ InSeq(TrailCall(s), mg[m].calls)
        /\ trade_state[s].side = "Buy"
        /\ trade_state[s].last_sl > trade_state[s].entry_price

\* C10: a position found closed leaves the symbol's state inactive, and no manager
\* pass sends a stop update for a symbol whose state is inactive.
C10_NoStopAfterFlat ==
    [][\A m \in Managers :
         /\ (mg[m].pc = "getpos" /\ mg'[m].pc # "getpos" /\ mg'[m].pc # "be"
             /\ trade_state' # trade_state)
            => ~trade_state'[mg[m].symbol].active
         /\ SendsStop(m) => trade_state[mg[m].symbol].active]_vars

\* C11: a new state is registered for a symbol only over a cleared (inactive)
\* state, never over a managed one, and a state is cleared only when the
\* exchange reports no position for the symbol.
C11_RegisterOnlyFromFlat ==
    [][\A s \in Symbols :
         /\ (\E h \in Handlers : /\ hd[h].pc = "register" /\ hd'[h].pc # "register"
                                 /\ hd[h].symbol = s)
            => ~trade_state[s].active
         /\ (trade_state[s].active /\ ~trade_state'[s].active) => exPos[s].size = 0]_vars

\* C12: a signal that opposes an open position whose unrealized loss is beyond
\* REVERSE_MAX_LOSS_PCT is not reversed: the handling ends there ("skip reverse",
\* or an error if the position could not be read) with no order placed and the
\* position and the symbol's state as they were; and only such a signal is
\* answered "skip reverse".
C12_LossGuardSkipsReversal ==
    [][\A h \in Handlers :
         (hd[h].pc = "position" /\ hd'[h].pc # "position")
         => LET s == hd[h].symbol
                p == exPos[s]
                gain == IF p.side = "Buy" THEN price[s] - p.entry ELSE p.entry - price[s]
                guarded == /\ p.size > 0 /\ p.side # hd[h].side
                           /\ gain * PctDen < -(REVERSE_MAX_LOSS_PCT * p.entry)
            IN  /\ guarded => /\ hd'[h].pc = "done"
                              /\ hd'[h].result \in {"skip_loss", "error"}
                              /\ hd'[h].calls = <<>>
                              /\ UNCHANGED <<exPos, resting, trade_state, placed>>
                /\ hd'[h].result = "skip_loss" => guarded]_vars

\* A reversal was skipped for a position in loss, which is still open.
C12_Witness ==
    \E h \in Handlers :
        /\ hd[h].pc = "done" /\ hd[h].result = "skip_loss" /\ hd[h].calls = <<>>
        /\ exPos[hd[h].symbol].size > 0
        /\ exPos[hd[h].symbol].side # hd[h].side

\* C13: a signal in the direction of the open position is answered with success
\* ("already open same direction"; an error only if the position could not be
\* read), places no order and leaves the position, its orders and the symbol's
\* state as they were.
C13_SameDirectionIgnored ==
    [][\A h \in Handlers :
         (/\ hd[h].pc = "position" /\ hd'[h].pc # "position"
          /\ exPos[hd[h].symbol].size > 0
          /\ exPos[hd[h].symbol].side = hd[h].side)
         => /\ hd'[h].pc = "done"
            /\ hd'[h].result \in {"skip_same", "error"}
            /\ hd'[h].result # "error" => Acknowledged(hd'[h].result)
            /\ hd'[h].calls = <<>>
            /\ UNCHANGED <<exPos, resting, trade_state, placed>>]_vars

\* A signal in the direction of the open position was answered "skip".
C13_Witness ==
    \E h \in Handlers :
        /\ hd[h].pc = "done" /\ hd[h].result = "skip_same" /\ hd[h].calls = <<>>
        /\ exPos[hd[h].symbol].size > 0
        /\ exPos[hd[h].symbol].side = hd[h].side

\* C14: a request whose side cannot be resolved, whose usd is not positive or
\* whose leverage lies outside 1..100 is refused by the step that takes it: the
\* worker ends with one of the three refusals, has made no gateway call and
\* sent no order, and neither the position state, the instrument cache nor the
\* exchange has changed.
C14_InvalidRequestRefused ==
    [][\A h \in Handlers :
         (/\ hd[h].pc = "idle" /\ hd'[h].pc # "idle"
          /\ \/ hd'[h].side = ""
             \/ hd'[h].usd <= 0
             \/ hd'[h].leverage < 1 \/ hd'[h].leverage > 100)
         => /\ hd'[h].pc = "done"
            /\ hd'[h].result \in {"bad_side", "bad_usd", "bad_leverage"}
            /\ ~hd'[h].gateway
            /\ hd'[h].calls = <<>>
            /\ UNCHANGED <<exPos, resting, instrument_cache, trade_state, trade_keys,
                           started, placed, entries>>]_vars

\* A request with leverage 101 has been refused while a position was managed.
C14_Witness ==
    \E h \in Handlers :
        /\ hd[h].pc = "done" /\ hd[h].result = "bad_leverage" /\ hd[h].leverage > 100
        /\ ~hd[h].gateway
        /\ \E s \in Symbols : trade_state[s].active /\ exPos[s].size > 0

\* C15: a request turned away by a quality gate places no order and changes
\* no state, and is answered with a skip, which is not an error: the cost gate
\* turns away exactly the well-formed requests whose tp_pct is below twice the
\* fee plus the minimal edge, and does so before any gateway call; the
\* spread/impulse gate skips only on a spread above the limit or on a last
\* bar wider than the ATR times its multiplier.
C15_QualityGateSkips ==
    [][\A h \in Handlers :
         (hd[h].pc = "idle" /\ hd'[h].pc # "idle")
         => LET me == hd'[h]
                well_formed == validation(me.side, me.usd, me.leverage, me.tp_pct,
                                          DEFAULT_SL_PCT) = ""
                too_cheap == me.tp_pct < 2 * BYBIT_FEE_PCT + MIN_EDGE_PCT
                too_wide == me.info.spread * PctDen * 2 > MAX_SPREAD_PCT * me.info.mid2
                impulse == /\ me.info.atr > 0
                           /\ me.info.last_range * 10 > me.info.atr * MAX_BAR_RANGE_ATR
            IN  /\ (well_formed /\ too_cheap) <=> me.result = "skip_cost"
                /\ me.result = "skip_cost" => ~me.gateway
                /\ me.result = "skip_filter" => (well_formed /\ (too_wide \/ impulse))
                /\ me.result \in {"skip_cost", "skip_filter"}
                   => /\ me.pc = "done"
                      /\ Acknowledged(me.result)
                      /\ me.calls = <<>>
                      /\ UNCHANGED <<exPos, resting, instrument_cache, trade_state,
                                     trade_keys, started, placed, entries>>]_vars

\* While a position is managed, a request has been skipped for its last bar (the
\* spread was within the limit).
C15_Witness ==
    \E h \in Handlers :
        /\ hd[h].pc = "done" /\ hd[h].result = "skip_filter"
        /\ hd[h].info.spread * PctDen * 2 <= MAX_SPREAD_PCT * hd[h].info.mid2
        /\ hd[h].info.atr > 0
        /\ \E s \in Symbols : trade_state[s].active /\ exPos[s].size > 0

\* trailEligibleAt of a registered state: entry_ts plus the timer (lines 488-496),
\* in seconds.
trail_eligible_at(st) == st.entry_ts + ATR_TRAIL_TIMER_BARS * 60

\* C16: a trailing stop call for a symbol is sent only at or after the time the
\* symbol's registered state became eligible: its registration time plus the
\* trailing delay.
C16_NoTrailBeforeEligible ==
    [][\A m \in Managers :
         (mg[m].pc = "trail" /\ SendsStop(m))
         => now >= trail_eligible_at(trade_state[mg[m].symbol])]_vars

\* The same read on the state the pass is working on (its snapshot st).
C16_OnTheSnapshot ==
    [][\A m \in Managers :
         (mg[m].pc = "trail" /\ SendsStop(m))
         => now >= trail_eligible_at(mg[m].st)]_vars

\* C17: the breakeven stop recorded after the TP1 fill is the entry price moved
\* in the profit direction by BE_OFFSET_PCT + BYBIT_FEE_PCT percent (long: up,
\* short: down), rounded to the tick.
C17_BreakevenCoversFee ==
    [][\A m \in Managers :
         (/\ mg[m].pc = "be" /\ mg'[m].pc # "be" /\ be_due(mg[m].st)
          /\ trade_state' # trade_state)
         => LET s == mg[m].symbol
                entry == mg[m].pos.entry
                pct == BE_OFFSET_PCT + BYBIT_FEE_PCT
                stated == IF mg[m].pos.side = "Buy"
                          THEN round_down_to_step(PctMove(entry, pct), tick_size)
                          ELSE round_down_to_step(PctMove(entry, -pct), tick_size)
            IN  trade_state'[s].last_sl = stated]_vars

\* C18: for a step above zero round_down_to_step returns the multiple q * step
\* of the step with q * step <= value < (q + 1) * step, and applied to its own
\* result it returns that result; for a step of zero or less it returns the
\* value unchanged.
C18_FloorToStep ==
    probe.pc \in {"rounded", "twice"}
    => /\ probe.step > 0
          => \E q \in (-MaxValue - 1)..(MaxValue + 1) :
                /\ probe.out = q * probe.step
                /\ q * probe.step <= probe.value
                /\ probe.value < (q + 1) * probe.step
       /\ probe.step <= 0 => probe.out = probe.value
       /\ probe.pc = "twice" => probe.again = probe.out

\* The same for the values the program rounds, which are not negative.
C18_ForNonNegative ==
    (probe.pc \in {"rounded", "twice"} /\ probe.value >= 0)
    => /\ probe.step > 0
          => \E q \in 0..MaxValue :
                /\ probe.out = q * probe.step
                /\ q * probe.step <= probe.value
                /\ probe.value < (q + 1) * probe.step
       /\ probe.step <= 0 => probe.out = probe.value
       /\ probe.pc = "twice" => probe.again = probe.out

\* C19: the trailing step is never given up for want of an ATR: once the gates
\* are passed and the candles are asked for, the pass goes on to the ratchet
\* with a candidate, which is one tick from the mark when the candles are too
\* few or the candle call fails, and the ATR distance from the mark otherwise.
C19_OneTickFallback ==
    [][\A m \in Managers :
         (mg[m].pc = "klines" /\ mg'[m].pc # "klines")
         => LET pos == mg[m].pos
                one_tick == IF pos.side = "Buy" THEN pos.mark - tick_size
                            ELSE pos.mark + tick_size
            IN  /\ mg'[m].pc = "trail"
                /\ \/ mg'[m].new_sl = round_down_to_step(one_tick, tick_size)
                   \/ \E kl \in KlineFeeds :
                        /\ calc_atr_from_klines(kl, ATR_LEN) > 0
                        /\ mg'[m].new_sl
                           = trail_candidate(pos, calc_atr_from_klines(kl, ATR_LEN))]_vars

\* C20: a call of get_instrument_filters returns the cached filters without a
\* gateway call exactly when an entry is cached and less than CACHE_TTL old;
\* otherwise it calls the gateway and, on an item, caches and returns the
\* fetched filters with the time of the call; on a gateway error or an unknown
\* symbol it raises and the cached entry stays as it was.
C20_FilterCache ==
    [][\A s \in Symbols :
         (probe.pc = "idle" /\ probe'.pc = "returned")
         => LET fresh == /\ instrument_cache[s] >= 0
                         /\ now - instrument_cache[s] < CACHE_TTL
                kept == /\ instrument_cache'[s] = instrument_cache[s]
                        /\ probe'.cached = probe.cached
            IN  /\ fresh <=> ~probe'.called
                /\ fresh => (~probe'.raised /\ probe'.out = probe.cached /\ kept)
                /\ probe'.raised <=> probe'.answer \in {"error", "unknown"}
                /\ probe'.raised => kept
                /\ (probe'.called /\ ~probe'.raised)
                   => /\ probe'.out = probe.exchange
                      /\ probe'.cached = probe.exchange
                      /\ instrument_cache'[s] = now]_vars

\* An entry half a CACHE_TTL old was served though the exchange has changed the
\* filters since.
C20_Witness ==
    \E s \in Symbols :
        /\ probe.pc = "returned" /\ ~probe.called
        /\ instrument_cache[s] >= 0 /\ now - instrument_cache[s] > 0
        /\ probe.out = probe.cached /\ probe.out # probe.exchange

\* The true ranges of a candle sequence, oldest first (lines 179-190).
TrueRanges(klines) ==
    LET k == Reverse(klines)
    IN  [j \in 1..(Len(k) - 1) |-> TrueRange(k, j + 1)]

RECURSIVE Power(_, _)
Power(b, n) == IF n = 0 THEN 1 ELSE b * Power(b, n - 1)

\* Wilder's smoothing without the divisions: the last atr value times
\* L^(Len(trs) - 1), from atr[0] = tr[0], atr[i] = (atr[i-1] * (L-1) + tr[i]) / L.
RECURSIVE WilderScaled(_, _)
WilderScaled(trs, L) ==
    IF Len(trs) = 1 THEN trs[1]
    ELSE WilderScaled(SubSeq(trs, 1, Len(trs) - 1), L) * (L - 1)
         + trs[Len(trs)] * Power(L, Len(trs) - 2)

\* C21: with enough candles the ATR returned is the last value of Wilder's
\* smoothing of the true ranges (cut to the unit, as the returned value is).
C21_WilderAtr ==
    (probe.pc = "atr" /\ Len(probe.klines) >= AtrLength + 2)
    => LET trs == TrueRanges(probe.klines)
           scale == Power(AtrLength, Len(trs) - 1)
           wilder == WilderScaled(trs, AtrLength)
       IN  /\ probe.atr * scale <= wilder
           /\ wilder < (probe.atr + 1) * scale

\* What the function returns: the mean of the last `length` true ranges.
C21_MeanOfLastRanges ==
    (probe.pc = "atr" /\ Len(probe.klines) >= AtrLength + 2)
    => LET trs == TrueRanges(probe.klines)
           window == SubSeq(trs, Len(trs) - AtrLength + 1, Len(trs))
       IN  probe.atr = SumSeq(window) \div AtrLength

\* C22: while a position is open, a manager pass never replaces the state the
\* webhook registered for the symbol by a state it derived from an earlier
\* trade, and never marks it inactive: whatever a pass writes to
\* _trade_state[symbol] is the dict that was stored there, still active, with
\* its trade's side and initial quantity.
C22_NoStaleWriteBack ==
    [][\A s \in Symbols :
         (trade_state'[s] # trade_state[s] /\ hd' = hd /\ exPos[s].size > 0)
         => /\ trade_state'[s].id = trade_state[s].id
            /\ trade_state'[s].active = trade_state[s].active
            /\ trade_state'[s].side = trade_state[s].side
            /\ trade_state'[s].initial_qty = trade_state[s].initial_qty]_vars

\* C23: a pass is not cut short by a failure: it ends (goes to its sleep) from
\* the reconciliation of a symbol only when no active symbol is left to
\* reconcile in it.
C23_FailureDoesNotEndPass ==
    [][\A m \in Managers :
         (mg[m].pc \in {"getpos", "be", "klines", "trail"} /\ mg'[m].pc = "sleep")
         => SkipInactive(mg[m].todo) = <<>>]_vars

\* C24: at most one manager thread is ever started.
C24_OneManagerThread ==
    Cardinality({m \in Managers : mg[m].pc # "off"}) <= 1

\* The open position of an active trade registered with its TP1 order is at or
\* below the TP1 threshold, and the breakeven stop is not set yet.
Tp1Filled(s) ==
    /\ trade_state[s].active /\ trade_state[s].tp1_placed /\ ~trade_state[s].be_done
    /\ exPos[s].size > 0
    /\ exPos[s].size * 1000 <= trade_state[s].initial_qty * (1000 - TP1_QTY_PCT * 8)

\* The breakeven stop is set, or the position is no longer open.
BreakevenSettled(s) == trade_state[s].be_done \/ exPos[s].size = 0

====
